---- MODULE Spec2Model ----
(***************************************************************************)
(* A model of the APNS client: the one-time construction of the connection *)
(* pool (client.go, apnsInitSync), the pool as a buffered channel          *)
(* (apns.go, APNSPool), the lazily connected APNSConn, the recursive       *)
(* APNSClient.Send, and LoadPem.                                           *)
(***************************************************************************)
EXTENDS Integers, Sequences, FiniteSets, TLC

\* Largest channel capacity the pool is built with (maxPoolSize in apns.go is
\* one value of the capacity; the pool code is the same for every capacity).
MaxPool == 2
\* Largest RetryCount a caller puts on a notification.
MaxBudget == 2
\* Largest number of PEM blocks in the bytes given to LoadPem.
MaxBlocks == 3

\* The goroutines that call Send concurrently.
Callers == {1, 2}
ConnIds == 1..MaxPool
Budgets == (0 - 1)..MaxBudget

VARIABLES
  cap,        \* capacity of the pool channel (maxPoolSize)
  once,       \* apnsInitSync: "new", "running" or "done"
  poolNil,    \* TRUE while the package variable pool is nil
  Pool,       \* pool.Pool: the buffered channel, a FIFO of connection ids
  conns,      \* the APNSConn objects: Connected, TlsConn, GaeConn
  stack,      \* per caller: the call stack of Send frames, innermost last
  n,          \* per caller: the PushNotification handed to Send
  hist,       \* per caller: the attempts of the current top-level Send, when traced
  builds,     \* number of executions of newAPNSPool so far
  pem         \* a call of LoadPem: its arguments and, once made, its results

vars == <<cap, once, poolNil, Pool, conns, stack, n, hist, builds, pem>>

(***************************************************************************)
(* Errors are their messages; NilErr is the nil error.                     *)
(***************************************************************************)
NilErr == "<nil>"
\* A panic unwinds the goroutine's frames like a return (deferred calls run);
\* it is the value the unwinding frames carry.
PanicNilDeref == "panic: nil pointer dereference"
InitErr == "crypto/tls: failed to parse certificate PEM data"
DialErr == "dial error"
HandshakeErr == "handshake error"
EncodeErr == "payload too large"
ReadErr == "read error"
ConnClosed == "Connection closed"
UnknownErr == "Unknown error"

RetryStatuses == {1, 2, 3, 4, 5, 6, 7, 8}

APNSStatusCodes ==
  [s \in {0, 1, 2, 3, 4, 5, 6, 7, 8, 10, 255} |->
     CASE s = 0 -> "No errors encountered"
       [] s = 1 -> "Processing error"
       [] s = 2 -> "Missing device token"
       [] s = 3 -> "Missing topic"
       [] s = 4 -> "Missing payload"
       [] s = 5 -> "Invalid token size"
       [] s = 6 -> "Invalid topic size"
       [] s = 7 -> "Invalid payload size"
       [] s = 8 -> "Invalid token"
       [] s = 10 -> "Shutdown"
       [] s = 255 -> "None (unknown)"]

Exhausted(msg) == "Retried more than 3 times: " \o msg


(***************************************************************************)
(* What the environment (dialer, payload, gateway) does to one attempt:    *)
(* the result of socket.Dial and Handshake, of Write, and of Read. A data  *)
(* result of Read carries the number r of bytes Read returned and the byte *)
(* the code then finds in read[1].                                         *)
(***************************************************************************)
Out(k) == [kind |-> k, status |-> 0, r |-> 0]
Data(r, s) == [kind |-> "data", status |-> s, r |-> r]
NoOut == Out("none")
DialOutcomes == {"ok", "dialerr", "hserr"}

\* read := [6]byte{} is zeroed; Read fills its first r bytes, so read[1] is the
\* status byte the gateway sent only when r >= 2.
StatusByte(r, sent) == IF r >= 2 THEN sent ELSE 0

ReadOutcomes(lens, statuses) ==
  {Out("timeout"), Out("eof"), Out("readerr")}
    \cup {Data(r, StatusByte(r, s)) : r \in lens, s \in statuses}

Envs(lens, statuses) ==
  [dial : DialOutcomes, write : BOOLEAN, read : ReadOutcomes(lens, statuses)]

(***************************************************************************)
(* APNSConn                                                                *)
(***************************************************************************)
newAPNSConn == [Connected |-> FALSE, TlsConn |-> FALSE, GaeConn |-> FALSE]

\* APNSConn.Close
Close(cn) == IF cn.TlsConn THEN [cn EXCEPT !.Connected = FALSE] ELSE cn

\* Variants of connect: one that sets Connected although the handshake failed,
\* one that dials whatever the Connected flag, and one that sets Connected
\* although socket.Dial failed.
connectMarksFailedHandshake(cn, d) ==
  LET closed == Close(cn) IN
  IF cn.Connected
    THEN [conn |-> cn, err |-> IF cn.GaeConn THEN NilErr ELSE PanicNilDeref,
          dialled |-> FALSE]
  ELSE IF d = "dialerr"
    THEN [conn |-> closed, err |-> DialErr, dialled |-> TRUE]
    ELSE [conn |-> [closed EXCEPT !.TlsConn = TRUE, !.GaeConn = TRUE, !.Connected = TRUE],
          err |-> IF d = "hserr" THEN HandshakeErr ELSE NilErr, dialled |-> TRUE]

connectAlwaysDials(cn, d) ==
  LET closed == Close(cn) IN
  IF d = "dialerr"
    THEN [conn |-> closed, err |-> DialErr, dialled |-> TRUE]
    ELSE [conn |-> [closed EXCEPT !.TlsConn = TRUE, !.GaeConn = TRUE,
                                  !.Connected = (d = "ok")],
          err |-> IF d = "hserr" THEN HandshakeErr ELSE NilErr, dialled |-> TRUE]

connectMarksFailedDial(cn, d) ==
  LET closed == Close(cn) IN
  IF cn.Connected
    THEN [conn |-> cn, err |-> IF cn.GaeConn THEN NilErr ELSE PanicNilDeref,
          dialled |-> FALSE]
  ELSE IF d = "dialerr"
    THEN [conn |-> [closed EXCEPT !.Connected = TRUE], err |-> DialErr, dialled |-> TRUE]
    ELSE [conn |-> [closed EXCEPT !.TlsConn = TRUE, !.GaeConn = TRUE,
                                  !.Connected = (d = "ok")],
          err |-> IF d = "hserr" THEN HandshakeErr ELSE NilErr, dialled |-> TRUE]

\* APNSConn.connect: the connection afterwards, the error returned and
\* whether socket.Dial was called, for the dial outcome d (which is consulted
\* only when the connection is not Connected).
connect(cn, d) ==
  IF cn.Connected
    THEN [conn |-> cn, err |-> IF cn.GaeConn THEN NilErr ELSE PanicNilDeref,
          dialled |-> FALSE]
    ELSE LET closed == Close(cn) IN
         IF d = "dialerr"
           THEN [conn |-> closed, err |-> DialErr, dialled |-> TRUE]
           ELSE LET dialled == [closed EXCEPT !.TlsConn = TRUE, !.GaeConn = TRUE] IN
                IF d = "hserr"
                  THEN [conn |-> dialled, err |-> HandshakeErr, dialled |-> TRUE]
                  ELSE [conn |-> [dialled EXCEPT !.Connected = TRUE], err |-> NilErr,
                        dialled |-> TRUE]

(***************************************************************************)
(* APNSPool: a buffered channel of capacity cap.                           *)
(***************************************************************************)
\* newAPNSPool on success: the channel filled with k fresh connections.
newAPNSPool(k) == [i \in 1..k |-> i]

\* <-p.Pool can complete only when the channel holds an element.
CanGet(p) == Len(p) > 0
AfterGetKeepsElement(p) == p
AfterGet(p) == Tail(p)

\* p.Pool <- conn can complete only when the channel is not full.
CanRelease(p, k) == Len(p) < k
AfterReleaseDropsConn(p, id) == p
AfterRelease(p, id) == Append(p, id)

(***************************************************************************)
(* The body of Send                                                        *)
(***************************************************************************)
\* A variant of the budget check that lets a budget of 0 through.
BudgetCheckOffByOne(nt) ==
  IF nt.RetryCount < 0
    THEN IF nt.Error = NilErr THEN PanicNilDeref ELSE Exhausted(nt.Error)
    ELSE NilErr

\* The budget check: what Send returns without decrementing, or NilErr when
\* the attempt goes on. n.Error.Error() on a nil n.Error panics.
BudgetCheck(nt) ==
  IF nt.RetryCount <= 0
    THEN IF nt.Error = NilErr THEN PanicNilDeref ELSE Exhausted(nt.Error)
    ELSE NilErr

\* n.ToBytes()
ToBytes(nt) == IF nt.payloadOk THEN NilErr ELSE EncodeErr

\* What Send does with the result o of conn.TlsConn.Read: "nil" (return nil),
\* "err" (return the read error) or "retry" (mark the connection, record
\* n.Error, call Send again).
ReadVerdictTimeoutIsClose(o) ==
  CASE o.kind \in {"timeout", "eof"} -> "retry"
    [] o.kind = "readerr" -> "err"
    [] o.kind = "data" -> IF o.status = 0 THEN "nil" ELSE "retry"

ReadVerdict(o) ==
  CASE o.kind = "timeout" -> "nil"
    [] o.kind = "eof" -> "retry"
    [] o.kind = "readerr" -> "err"
    [] o.kind = "data" -> IF o.status = 0 THEN "nil" ELSE "retry"

\* n.Error recorded before the retry that follows a Read.
RetryErrorAlwaysUnknown(o) == IF o.kind = "eof" THEN ConnClosed ELSE UnknownErr

\* A variant that looks every status up in the table, 10 and 255 included.
RetryErrorTableLookup(o) ==
  IF o.kind = "eof" THEN ConnClosed
  ELSE IF o.status \in DOMAIN APNSStatusCodes THEN APNSStatusCodes[o.status]
  ELSE UnknownErr

RetryError(o) ==
  IF o.kind = "eof" THEN ConnClosed
  ELSE IF o.status \in RetryStatuses THEN APNSStatusCodes[o.status]
  ELSE UnknownErr

\* What an attempt did to its connection: the connection as the attempt found
\* it, whether connect called socket.Dial, whether Write was called, and the
\* Connected flag at the time of the Write.
NoEv == [before |-> newAPNSConn, dialled |-> FALSE, wrote |-> FALSE, flagAtWrite |-> FALSE]

\* Send from conn.connect to its return or its recursive call, on connection
\* cn with notification nt in environment e: the connection and notification
\* afterwards, whether Send calls itself (retry), the error it returns
\* otherwise, the event that decided the attempt, and what it did to cn.
SendBody(cn, nt, e) ==
  LET k == connect(cn, e.dial)
      ev0 == [NoEv EXCEPT !.before = cn, !.dialled = k.dialled]
      ev1 == [ev0 EXCEPT !.wrote = TRUE, !.flagAtWrite = k.conn.Connected] IN
  IF k.err # NilErr
    THEN [conn |-> k.conn, n |-> nt, retry |-> FALSE, err |-> k.err,
          out |-> Out(IF k.err = PanicNilDeref THEN "panic" ELSE e.dial), ev |-> ev0]
  ELSE IF ToBytes(nt) # NilErr
    THEN [conn |-> k.conn, n |-> nt, retry |-> FALSE, err |-> ToBytes(nt),
          out |-> Out("encerr"), ev |-> ev0]
  ELSE IF ~k.conn.TlsConn
    THEN [conn |-> k.conn, n |-> nt, retry |-> FALSE, err |-> PanicNilDeref,
          out |-> Out("panic"), ev |-> ev1]
  ELSE IF ~e.write
    THEN [conn |-> [k.conn EXCEPT !.Connected = FALSE],
          n |-> [nt EXCEPT !.Error = ConnClosed],
          retry |-> TRUE, err |-> NilErr, out |-> Out("writeerr"), ev |-> ev1]
  ELSE CASE ReadVerdict(e.read) = "nil" ->
              [conn |-> k.conn, n |-> nt, retry |-> FALSE, err |-> NilErr,
               out |-> e.read, ev |-> ev1]
         [] ReadVerdict(e.read) = "err" ->
              [conn |-> k.conn, n |-> nt, retry |-> FALSE, err |-> ReadErr,
               out |-> e.read, ev |-> ev1]
         [] ReadVerdict(e.read) = "retry" ->
              [conn |-> [k.conn EXCEPT !.Connected = FALSE],
               n |-> [nt EXCEPT !.Error = RetryError(e.read)],
               retry |-> TRUE, err |-> NilErr, out |-> e.read, ev |-> ev1]

(***************************************************************************)
(* LoadPem. A PEM block is its Type and what its Bytes hold. A certificate *)
(* either fails x509.ParseCertificate or has a public key algorithm and,   *)
(* for RSA, a modulus N. A key block is encrypted under a passphrase (or   *)
(* has no DEK-Info header at all) and its plaintext is a PKCS#1 RSA key, a *)
(* PKCS#8 RSA key, a PKCS#8 key of another type, or no key.                *)
(***************************************************************************)
Moduli == {11, 13}
Passphrases == {"secret", "guess"}

CertBytes ==
  {[parses |-> TRUE, alg |-> "RSA", N |-> m] : m \in Moduli}
    \cup {[parses |-> TRUE, alg |-> "ECDSA", N |-> 0],
          [parses |-> FALSE, alg |-> "", N |-> 0]}

KeyDers ==
  {[fmt |-> "pkcs1", N |-> m] : m \in Moduli}
    \cup {[fmt |-> "pkcs8rsa", N |-> 11], [fmt |-> "pkcs8ec", N |-> 0],
          [fmt |-> "garbage", N |-> 0]}

CertBlocks == {[Type |-> "CERTIFICATE", Bytes |-> b] : b \in CertBytes}
KeyBlocks ==
  {[Type |-> "RSA PRIVATE KEY", Bytes |-> [dek |-> TRUE, pass |-> "secret", der |-> d]] :
     d \in KeyDers}
    \cup {[Type |-> "PRIVATE KEY",
           Bytes |-> [dek |-> FALSE, pass |-> "", der |-> [fmt |-> "pkcs8rsa", N |-> 11]]]}
Blocks == CertBlocks \cup KeyBlocks

NoKey == [fmt |-> "nil", N |-> 0]
NoBlock == [Type |-> "nil", Bytes |-> [dek |-> FALSE, pass |-> "", der |-> NoKey]]
EmptyCertificate == [Certificate |-> <<>>, PrivateKey |-> NoKey]

\* x509.DecryptPEMBlock
DecryptPEMBlock(block, passphrase) ==
  IF ~block.Bytes.dek
    THEN [der |-> NoKey, err |-> "x509: no DEK-Info header in block"]
  ELSE IF block.Bytes.pass # passphrase
    THEN [der |-> NoKey, err |-> "x509: decryption password incorrect"]
    ELSE [der |-> block.Bytes.der, err |-> NilErr]

\* x509.ParsePKCS1PrivateKey
ParsePKCS1PrivateKey(der) ==
  IF der.fmt = "pkcs1"
    THEN [key |-> [fmt |-> "rsa", N |-> der.N], err |-> NilErr]
    ELSE [key |-> NoKey, err |-> "asn1: structure error"]

\* x509.ParsePKCS8PrivateKey
ParsePKCS8PrivateKey(der) ==
  CASE der.fmt = "pkcs8rsa" -> [key |-> [fmt |-> "rsa", N |-> der.N], err |-> NilErr]
    [] der.fmt = "pkcs8ec" -> [key |-> [fmt |-> "ecdsa", N |-> 0], err |-> NilErr]
    [] OTHER -> [key |-> NoKey, err |-> "asn1: structure error"]

\* A variant of the loop that goes on after the first other block and takes
\* every CERTIFICATE block of the input.
RECURSIVE ScanBlocksAllCertificates(_, _)
ScanBlocksAllCertificates(blocks, chain) ==
  IF blocks = <<>>
    THEN [chain |-> chain, block |-> NoBlock]
  ELSE IF Head(blocks).Type = "CERTIFICATE"
    THEN ScanBlocksAllCertificates(Tail(blocks), Append(chain, Head(blocks).Bytes))
    ELSE [chain |-> ScanBlocksAllCertificates(Tail(blocks), chain).chain,
          block |-> Head(blocks)]

\* The loop of LoadPem: the leading CERTIFICATE blocks go to cert.Certificate
\* and block is left at the first other block, or nil when the input ends.
RECURSIVE ScanBlocks(_, _)
ScanBlocks(blocks, chain) ==
  IF blocks = <<>>
    THEN [chain |-> chain, block |-> NoBlock]
  ELSE IF Head(blocks).Type = "CERTIFICATE"
    THEN ScanBlocks(Tail(blocks), Append(chain, Head(blocks).Bytes))
    ELSE [chain |-> chain, block |-> Head(blocks)]

\* LoadPem returns with the named results as they are at the return.
LoadPem(pemBlock, passphrase) ==
  LET scan == ScanBlocks(pemBlock, <<>>)
      cert0 == [EmptyCertificate EXCEPT !.Certificate = scan.chain]
  IN
  IF Len(cert0.Certificate) = 0
    THEN [cert |-> cert0, err |-> "crypto/tls: failed to parse certificate PEM data"]
  ELSE IF scan.block = NoBlock
    THEN [cert |-> cert0, err |-> "crypto/tls: failed to parse key PEM data"]
  ELSE LET dec == DecryptPEMBlock(scan.block, passphrase) IN
  IF dec.err # NilErr
    THEN [cert |-> cert0, err |-> "crypto/tls: passphrase: " \o dec.err]
  ELSE LET p1 == ParsePKCS1PrivateKey(dec.der)
           p8 == ParsePKCS8PrivateKey(dec.der) IN
  IF p1.err # NilErr /\ p8.err # NilErr
    THEN [cert |-> cert0, err |-> "crypto/tls: failed to parse key: " \o p8.err]
  ELSE IF p1.err # NilErr /\ p8.key.fmt # "rsa"
    THEN [cert |-> cert0,
          err |-> "crypto/tls: found non-RSA private key in PKCS#8 wrapping"]
  ELSE LET key == IF p1.err = NilErr THEN p1.key ELSE p8.key
           cert1 == [cert0 EXCEPT !.PrivateKey = key]
           leaf == cert1.Certificate[1] IN
  IF ~leaf.parses
    THEN [cert |-> cert1, err |-> "x509: malformed certificate"]
  ELSE IF leaf.alg # "RSA" \/ leaf.N # key.N
    THEN [cert |-> cert1, err |-> "crypto/tls: private key does not match public key"]
    ELSE [cert |-> cert1, err |-> NilErr]

(***************************************************************************)
(* Send frames                                                             *)
(***************************************************************************)
NewFrame(budget) ==
  [pc |-> "once", conn |-> 0, err |-> NilErr, out |-> NoOut, entry |-> budget]

FreshNotification == [RetryCount |-> 0, Error |-> NilErr, payloadOk |-> TRUE]
\* hist: the budget the top-level Send started with, the number of attempts
\* (connect calls) made, their outcomes in order, and what the latest did.
NoHist == [budget0 |-> 0, attempts |-> 0, outs |-> <<>>, ev |-> NoEv]

Depth(c) == Len(stack[c])
Top(c) == stack[c][Len(stack[c])]
Running(c) == stack[c] # <<>>
At(c, pc) == Running(c) /\ Top(c).pc = pc
SetTop(c, f) == [stack EXCEPT ![c] = [@ EXCEPT ![Len(@)] = f]]
Ret(f, e) == [f EXCEPT !.pc = "ret", !.err = e]

NoPem == [blocks |-> <<>>, passphrase |-> "", called |-> FALSE]

Init ==
  /\ pem = NoPem
  /\ cap \in 1..MaxPool
  /\ once = "new"
  /\ poolNil = TRUE
  /\ Pool = <<>>
  /\ conns = [i \in ConnIds |-> newAPNSConn]
  /\ stack = [c \in Callers |-> <<>>]
  /\ n = [c \in Callers |-> FreshNotification]
  /\ hist = [c \in Callers |-> NoHist]
  /\ builds = 0

\* A caller calls Send on one of the notifications ns.
Start(c, ns) ==
  /\ ~Running(c)
  /\ \E nt \in ns :
       /\ n' = [n EXCEPT ![c] = nt]
       /\ hist' = [hist EXCEPT ![c] = [NoHist EXCEPT !.budget0 = nt.RetryCount]]
       /\ stack' = [stack EXCEPT ![c] = <<NewFrame(nt.RetryCount)>>]
  /\ UNCHANGED <<pem, cap, once, poolNil, Pool, conns, builds>>

\* apnsInitSync.Do: who runs f, and who returns from Do without running it.
MayRunInit(o) == o = "new"
MayPassInitWhileRunning(o) == o # "new"
MayPassInit(o) == o = "done"

\* Send between the return of apnsInitSync.Do and pool.Get, in the frame f
\* whose local err is e: if err != nil { return err }, the budget check and
\* the decrement.
AfterOncePaysOnceOnly(c, f, e) ==
  IF e # NilErr
    THEN /\ stack' = SetTop(c, Ret(f, e))
         /\ n' = n
  ELSE IF BudgetCheck(n[c]) # NilErr
    THEN /\ stack' = SetTop(c, Ret(f, BudgetCheck(n[c])))
         /\ n' = n
    ELSE /\ n' = [n EXCEPT ![c].RetryCount = IF Depth(c) = 1 THEN @ - 1 ELSE @]
         /\ stack' = SetTop(c, [f EXCEPT !.pc = "get"])

AfterOnce(c, f, e) ==
  IF e # NilErr
    THEN /\ stack' = SetTop(c, Ret(f, e))
         /\ n' = n
  ELSE IF BudgetCheck(n[c]) # NilErr
    THEN /\ stack' = SetTop(c, Ret(f, BudgetCheck(n[c])))
         /\ n' = n
    ELSE /\ n' = [n EXCEPT ![c].RetryCount = @ - 1]
         /\ stack' = SetTop(c, [f EXCEPT !.pc = "get"])

\* apnsInitSync.Do, first caller: it starts to run f.
OnceBegin(c) ==
  /\ At(c, "once")
  /\ MayRunInit(once)
  /\ once' = "running"
  /\ stack' = SetTop(c, [Top(c) EXCEPT !.pc = "init"])
  /\ UNCHANGED <<pem, cap, poolNil, Pool, conns, n, hist, builds>>

\* f: pool, err = newAPNSPool(...). newAPNSConn fails when the pem cannot be
\* loaded, and then pool stays nil and err is set in the frame that ran f.
OnceRun(c) ==
  /\ At(c, "init")
  /\ once' = "done"
  /\ builds' = builds + 1
  /\ \E ok \in BOOLEAN :
       IF ok
         THEN /\ poolNil' = FALSE
              /\ Pool' = newAPNSPool(cap)
              /\ conns' = [i \in ConnIds |-> newAPNSConn]
              /\ AfterOnce(c, Top(c), NilErr)
         ELSE /\ AfterOnce(c, Top(c), InitErr)
              /\ UNCHANGED <<poolNil, Pool, conns>>
  /\ UNCHANGED <<pem, cap, hist>>

\* apnsInitSync.Do, any other call: it returns once f has returned, without
\* running f; the frame's err is still nil.
OncePass(c) ==
  /\ At(c, "once")
  /\ MayPassInit(once)
  /\ AfterOnce(c, Top(c), NilErr)
  /\ UNCHANGED <<pem, cap, once, poolNil, Pool, conns, hist, builds>>

\* conn := pool.Get(); defer pool.Release(conn). p.Pool on a nil pool panics.
Get(c) ==
  /\ At(c, "get")
  /\ IF poolNil
       THEN /\ stack' = SetTop(c, Ret(Top(c), PanicNilDeref))
            /\ Pool' = Pool
       ELSE /\ CanGet(Pool)
            /\ stack' = SetTop(c, [Top(c) EXCEPT !.pc = "attempt", !.conn = Head(Pool)])
            /\ Pool' = AfterGet(Pool)
  /\ UNCHANGED <<pem, cap, once, poolNil, conns, n, hist, builds>>

\* One attempt on the connection the frame holds, in one of the environments
\* es: conn.connect, n.ToBytes, Write, Read, up to the return or the recursive
\* a.Send(n), whose frame is pushed. traced: the attempt is recorded in hist.
Attempt(c, es, traced) ==
  /\ At(c, "attempt")
  /\ LET f == Top(c) IN
     \E e \in es :
       LET b == SendBody(conns[f.conn], n[c], e)
           g == [f EXCEPT !.out = IF traced THEN b.out ELSE NoOut] IN
         /\ conns' = [conns EXCEPT ![f.conn] = b.conn]
         /\ n' = [n EXCEPT ![c] = b.n]
         /\ hist' = IF traced
                      THEN [hist EXCEPT ![c].attempts = @ + 1,
                                        ![c].outs = Append(@, b.out),
                                        ![c].ev = b.ev]
                      ELSE hist
         /\ stack' = IF b.retry
                       THEN [stack EXCEPT ![c] =
                               Append([@ EXCEPT ![Len(@)] = [g EXCEPT !.pc = "call"]],
                                      NewFrame(b.n.RetryCount))]
                       ELSE SetTop(c, Ret(g, b.err))
  /\ UNCHANGED <<pem, cap, once, poolNil, Pool, builds>>

\* The frame returns: the deferred pool.Release(conn) runs if it was
\* registered, and the value goes to the calling frame, which returns it
\* unchanged, or to the caller of the top-level Send.
Return(c) ==
  /\ At(c, "ret")
  /\ LET f == Top(c)
         rest == SubSeq(stack[c], 1, Len(stack[c]) - 1) IN
       /\ IF f.conn # 0
            THEN /\ CanRelease(Pool, cap)
                 /\ Pool' = AfterRelease(Pool, f.conn)
            ELSE Pool' = Pool
       /\ IF rest = <<>>
            THEN /\ stack' = [stack EXCEPT ![c] = <<>>]
                 /\ n' = [n EXCEPT ![c] = FreshNotification]
                 /\ hist' = [hist EXCEPT ![c] = NoHist]
            ELSE /\ stack' = [stack EXCEPT ![c] =
                                [rest EXCEPT ![Len(rest)] = Ret(@, f.err)]]
                 /\ UNCHANGED <<n, hist>>
  /\ UNCHANGED <<pem, cap, once, poolNil, conns, builds>>

Step(c, ns, es, traced) ==
  \/ Start(c, ns)
  \/ OnceBegin(c)
  \/ OnceRun(c)
  \/ OncePass(c)
  \/ Get(c)
  \/ Attempt(c, es, traced)
  \/ Return(c)

(***************************************************************************)
(* Spec: concurrent callers.                                               *)
(***************************************************************************)
Notifications ==
  {[RetryCount |-> b, Error |-> NilErr, payloadOk |-> TRUE] : b \in Budgets}
    \cup {[RetryCount |-> MaxBudget, Error |-> NilErr, payloadOk |-> FALSE],
          [RetryCount |-> 0, Error |-> ConnClosed, payloadOk |-> TRUE]}

Next == \E c \in Callers : Step(c, Notifications, Envs({6}, {0, 1}), FALSE)

Spec == Init /\ [][Next]_vars

(***************************************************************************)
(* SpecSeq: one caller, every kind of notification and every kind of       *)
(* response, with the attempts of each top-level Send traced in hist.      *)
(***************************************************************************)
AllNotifications ==
  [RetryCount : Budgets, Error : {NilErr, ConnClosed}, payloadOk : BOOLEAN]

ReadLens == {1, 2, 6}
Statuses == {0, 1, 2, 8, 9, 10, 255}

NextSeq == Step(1, AllNotifications, Envs(ReadLens, Statuses), TRUE)

SpecSeq == Init /\ [][NextSeq]_vars

(***************************************************************************)
(* SpecPem: LoadPem on every input of at most MaxBlocks blocks.            *)
(***************************************************************************)
RECURSIVE BlockSeqs(_)
BlockSeqs(k) ==
  IF k = 0 THEN {<<>>}
  ELSE LET shorter == BlockSeqs(k - 1) IN
       shorter \cup {Append(q, b) : q \in {x \in shorter : Len(x) = k - 1}, b \in Blocks}

InitPem ==
  /\ pem \in [blocks : BlockSeqs(MaxBlocks), passphrase : Passphrases, called : {FALSE}]
  /\ cap = 1
  /\ once = "new"
  /\ poolNil = TRUE
  /\ Pool = <<>>
  /\ conns = [i \in ConnIds |-> newAPNSConn]
  /\ stack = [c \in Callers |-> <<>>]
  /\ n = [c \in Callers |-> FreshNotification]
  /\ hist = [c \in Callers |-> NoHist]
  /\ builds = 0

CallLoadPem ==
  /\ ~pem.called
  /\ LET r == LoadPem(pem.blocks, pem.passphrase) IN
       pem' = [blocks |-> pem.blocks, passphrase |-> pem.passphrase, called |-> TRUE,
               cert |-> r.cert, err |-> r.err]
  /\ UNCHANGED <<cap, once, poolNil, Pool, conns, stack, n, hist, builds>>

NextPem == CallLoadPem

SpecPem == InitPem /\ [][NextPem]_vars

(***************************************************************************)
(* Properties                                                              *)
(***************************************************************************)
\* The frames, as pairs <<caller, index>>, that hold a connection.
Holders == {x \in Callers \X (1..(MaxBudget + 1)) :
              x[2] <= Len(stack[x[1]]) /\ stack[x[1]][x[2]].conn # 0}
Holds(c) == \E x \in Holders : x[1] = c
InFlight == {c \in Callers : Running(c)}
Finishing(c) == Depth(c) = 1 /\ At(c, "ret")

\* C1: at most cap connections are held outside the pool, no connection is
\* held by two frames at once, and with a pool of one connection two callers
\* never hold a connection at the same time.
PoolExclusive ==
  /\ Cardinality(Holders) <= cap
  /\ \A x, y \in Holders :
       stack[x[1]][x[2]].conn = stack[y[1]][y[2]].conn => x = y
  /\ cap = 1 => \A c, d \in Callers : Holds(c) /\ Holds(d) => c = d

\* C1 witness: a pool of one connection, held by one caller while another
\* caller waits in Get.
PoolExclusiveWitness ==
  /\ cap = 1
  /\ \E c, d \in Callers : c # d /\ Holds(c) /\ At(d, "get") /\ ~poolNil

\* C2: no state is reachable in which every in-flight caller is blocked in
\* Get on an empty pool.
NoGetDeadlock ==
  ~(/\ InFlight # {}
    /\ ~poolNil
    /\ Pool = <<>>
    /\ \A c \in InFlight : At(c, "get"))

\* C3: once the one-time construction has failed, no caller goes on to
\* pool.Get on the unset pool.
InitFailureStopsEveryCaller ==
  (once = "done" /\ poolNil) => \A c \in Callers : ~At(c, "get")

\* C4: newAPNSPool runs at most once, and a frame is at or past pool.Get only
\* after that one run has completed.
PoolBuiltOnce ==
  /\ builds <= 1
  /\ once = "done" <=> builds = 1
  /\ \A c \in Callers : \A i \in 1..Len(stack[c]) :
       stack[c][i].pc \in {"get", "attempt", "call"} => (once = "done" /\ builds = 1)

\* C4 witness: two callers raced on the first use, the pool was built once and
\* both are past the barrier, one of them in a recursive call.
PoolBuiltOnceWitness ==
  /\ builds = 1
  /\ \A c \in Callers : Running(c) /\ stack[c][1].pc \in {"attempt", "call"}
  /\ \E c \in Callers : Depth(c) = 2 /\ At(c, "get")

\* C5: when a Send with budget B >= 1 whose every attempt got the same status
\* s in 1..8 returns, it returns the exhaustion error wrapping the message of
\* s, after exactly B attempts, with the budget at 0.
AllStatus(h, s) ==
  /\ h.outs # <<>>
  /\ \A i \in 1..Len(h.outs) : h.outs[i].kind = "data" /\ h.outs[i].status = s

ExhaustionAfterSameStatus ==
  \A c \in Callers : \A s \in RetryStatuses :
    (Finishing(c) /\ hist[c].budget0 >= 1 /\ AllStatus(hist[c], s)) =>
      /\ Top(c).err = Exhausted(APNSStatusCodes[s])
      /\ hist[c].attempts = hist[c].budget0
      /\ n[c].RetryCount = 0

\* C5 witness: budget 2, status 1 twice, "Processing error" wrapped.
ExhaustionAfterSameStatusWitness ==
  /\ Finishing(1)
  /\ hist[1].budget0 = 2
  /\ Len(hist[1].outs) = 2
  /\ AllStatus(hist[1], 1)
  /\ Top(1).err = "Retried more than 3 times: Processing error"

\* The Send of caller c made exactly two attempts: the first ended with a
\* write error, the second with a timeout or a status 0.
WriteFailedThenSucceeded(c) ==
  /\ Finishing(c)
  /\ Len(hist[c].outs) = 2
  /\ hist[c].outs[1].kind = "writeerr"
  /\ \/ hist[c].outs[2].kind = "timeout"
     \/ hist[c].outs[2].kind = "data" /\ hist[c].outs[2].status = 0

\* C6, as claimed: first write fails, retry succeeds: the result is success and
\* RetryCount is 1 less than before the Send.
RetryCostsOne ==
  \A c \in Callers :
    WriteFailedThenSucceeded(c) =>
      Top(c).err = NilErr /\ n[c].RetryCount = hist[c].budget0 - 1

\* C6, amended: first write fails, retry succeeds: the result is success and
\* RetryCount is 2 less than before the Send, one for each of the two attempts.
RetryCostsTwo ==
  \A c \in Callers :
    WriteFailedThenSucceeded(c) =>
      Top(c).err = NilErr /\ n[c].RetryCount = hist[c].budget0 - 2

\* C6 witness
RetryCostsTwoWitness == WriteFailedThenSucceeded(1) /\ hist[1].budget0 = 2

\* C7: an attempt whose read times out returns nil without a recursive call,
\* has decremented the budget by exactly 1, and leaves the connection
\* Connected.
TimeoutIsSuccess ==
  \A c \in Callers : \A i \in 1..Len(stack[c]) :
    LET f == stack[c][i] IN
      f.out.kind = "timeout" =>
        /\ i = Len(stack[c])
        /\ f.pc = "ret"
        /\ f.err = NilErr
        /\ f.entry >= 1
        /\ n[c].RetryCount = f.entry - 1
        /\ conns[f.conn].Connected

\* C7 witness: a top-level Send with budget 2 returns after one attempt that
\* timed out.
TimeoutIsSuccessWitness ==
  /\ Finishing(1)
  /\ Top(1).out.kind = "timeout"
  /\ hist[1].budget0 = 2
  /\ hist[1].attempts = 1
  /\ n[1].RetryCount = 1

\* C8: the pool and the frames together hold every connection exactly once,
\* a deferred Release never finds the channel full, and whenever no Send is
\* in progress the pool holds all cap connections.
HeldConns == {stack[x[1]][x[2]].conn : x \in Holders}
PooledConns == {Pool[i] : i \in 1..Len(Pool)}

PoolRestored ==
  ~poolNil =>
    /\ HeldConns \cup PooledConns = 1..cap
    /\ Len(Pool) + Cardinality(Holders) = cap
    /\ \A c \in Callers : (At(c, "ret") /\ Top(c).conn # 0) => CanRelease(Pool, cap)
    /\ InFlight = {} => Len(Pool) = cap

\* C8 witness: no Send is in progress and the pool is full again, in another
\* order than it was built in.
PoolRestoredWitness ==
  /\ ~poolNil
  /\ InFlight = {}
  /\ Len(Pool) = cap
  /\ Pool # newAPNSPool(cap)

\* C9: a Send entered with a budget <= 0 returns the retries-exhausted error
\* wrapping n.Error, holds no connection and leaves the budget unchanged.
ExhaustedOnEntry ==
  \A c \in Callers :
    (At(c, "ret") /\ Top(c).entry <= 0 /\ Top(c).err # InitErr) =>
      /\ Top(c).err = Exhausted(n[c].Error)
      /\ Top(c).conn = 0
      /\ n[c].RetryCount = Top(c).entry

\* The failures of LoadPem that come from the key: wrong passphrase,
\* unparsable key, non-RSA key, key that does not match the leaf certificate.
KeyFailures ==
  {"crypto/tls: passphrase: x509: decryption password incorrect",
   "crypto/tls: failed to parse key: asn1: structure error",
   "crypto/tls: found non-RSA private key in PKCS#8 wrapping",
   "crypto/tls: private key does not match public key"}

\* C10: when LoadPem fails on the key, the certificate it returns is empty: no
\* chain and no private key come with the error.
FailedLoadIsEmpty ==
  (pem.called /\ pem.err \in KeyFailures) => pem.cert = EmptyCertificate

\* The frames of caller c, by index.
FrameIds(c) == 1..Len(stack[c])

\* C11: an attempt whose Read returned fewer than 6 bytes without error ends
\* with an error: the frame returns, and what it returns is not nil.
ShortReadRejected ==
  \A c \in Callers : \A i \in FrameIds(c) :
    LET f == stack[c][i] IN
      (f.out.kind = "data" /\ f.out.r < 6) => (f.pc = "ret" /\ f.err # NilErr)

\* C12: a recursive retry call works on the connection of the call that
\* failed, and takes none from the pool.
RetryReusesConnection ==
  \A c \in Callers : \A i \in FrameIds(c) :
    i > 1 => /\ stack[c][i].pc # "get"
             /\ stack[c][i].conn \in {0, stack[c][i - 1].conn}

\* C13: after an attempt that ended with a write error or a read error other
\* than a timeout, the connection is not Connected when the frame returns it
\* to the pool.
BrokenConnectionMarked ==
  \A c \in Callers : \A i \in FrameIds(c) :
    LET f == stack[c][i] IN
      (f.pc = "ret" /\ f.out.kind \in {"writeerr", "eof", "readerr"}) =>
        ~conns[f.conn].Connected

\* The attempt of frame f failed in connect.
ConnectFailed(f) == f.out.kind \in {"dialerr", "hserr"}

\* C14: when connect fails, the frame returns the dial or handshake error
\* with no recursive call and no Write, the connection is not Connected, and
\* the frame's return puts the connection back into the pool.
ConnectFailureReturned ==
  \A i \in FrameIds(1) :
    LET f == stack[1][i] IN
      ConnectFailed(f) =>
        /\ i = Depth(1)
        /\ f.pc = "ret"
        /\ f.err = (IF f.out.kind = "dialerr" THEN DialErr ELSE HandshakeErr)
        /\ ~hist[1].ev.wrote
        /\ f.conn # 0
        /\ ~conns[f.conn].Connected
        /\ CanRelease(Pool, cap)

ConnectFailureReleased ==
  (Running(1) /\ ConnectFailed(Top(1)) /\ stack' # stack) =>
    /\ Pool' = Append(Pool, Top(1).conn)
    /\ ~conns'[Top(1).conn].Connected
    /\ \/ Depth(1) = 1 /\ stack'[1] = <<>>
       \/ Depth(1) > 1 /\ Top(1)'.pc = "ret" /\ Top(1)'.err = Top(1).err

ConnectFailure == []ConnectFailureReturned /\ [][ConnectFailureReleased]_vars

ConnectFailureWitness ==
  /\ Running(1)
  /\ Depth(1) = 2
  /\ Top(1).out.kind = "hserr"
  /\ conns[Top(1).conn].TlsConn

\* C15: connect dials exactly when the connection is not Connected and leaves
\* a Connected connection as it is; an attempt dialled exactly when it found
\* its connection not Connected, and every Write was made with Connected set;
\* the release of a frame's connection appends it to the pool whatever its
\* Connected flag and changes no connection.
ConnectDialsWhenDisconnected ==
  /\ \A i \in ConnIds : \A d \in DialOutcomes :
       LET k == connect(conns[i], d) IN
         /\ k.dialled <=> ~conns[i].Connected
         /\ conns[i].Connected => k.conn = conns[i]
  /\ hist[1].attempts > 0 =>
       /\ hist[1].ev.dialled <=> ~hist[1].ev.before.Connected
       /\ hist[1].ev.wrote => hist[1].ev.flagAtWrite

ReleaseKeepsConnection ==
  (At(1, "ret") /\ Top(1).conn # 0 /\ stack' # stack) =>
    /\ Pool' = Append(Pool, Top(1).conn)
    /\ conns' = conns

ReleaseThenRedial == []ConnectDialsWhenDisconnected /\ [][ReleaseKeepsConnection]_vars

\* An attempt that found a connection dialled earlier and released as not
\* Connected, and that dialled it again and wrote on it.
ReleaseThenRedialWitness ==
  /\ cap = 1
  /\ Depth(1) = 1
  /\ hist[1].attempts = 1
  /\ hist[1].ev.before = [Connected |-> FALSE, TlsConn |-> TRUE, GaeConn |-> TRUE]
  /\ hist[1].ev.dialled
  /\ hist[1].ev.wrote

\* The budget a top-level Send can spend: its RetryCount on entry, or 0 when
\* that is negative.
Spendable(c) == IF hist[c].budget0 > 0 THEN hist[c].budget0 ELSE 0
\* The top frame has decremented RetryCount and not yet made its attempt.
Paid(c) == IF Top(c).pc \in {"get", "attempt"} THEN 1 ELSE 0

\* C16: in every top-level Send the attempts made never exceed the budget on
\* entry, each frame entered with one less budget than its caller, RetryCount
\* is the budget on entry less one per attempt made or paid for (a frame pays
\* before pool.Get, and on a nil pool its attempt never comes), it never goes
\* below 0 from a budget that was not, and the depth is at most budget + 1.
BudgetBoundsAttempts ==
  Running(1) =>
    /\ hist[1].attempts <= Spendable(1)
    /\ Depth(1) <= Spendable(1) + 1
    /\ Depth(1) <= hist[1].attempts + 1
    /\ \A i \in FrameIds(1) : stack[1][i].entry = hist[1].budget0 - (i - 1)
    /\ n[1].RetryCount \in {hist[1].budget0 - hist[1].attempts - 1,
                            hist[1].budget0 - hist[1].attempts}
    /\ ~poolNil => n[1].RetryCount = hist[1].budget0 - hist[1].attempts - Paid(1)
    /\ hist[1].budget0 >= 0 => n[1].RetryCount >= 0

BudgetBoundsAttemptsWitness ==
  /\ Running(1)
  /\ hist[1].budget0 = MaxBudget
  /\ hist[1].attempts = MaxBudget
  /\ Depth(1) = MaxBudget + 1
  /\ n[1].RetryCount = 0
  /\ Top(1).pc = "ret"

\* The attempt of frame f read a full response of 6 bytes.
FullResponse(f) == f.out.kind = "data" /\ f.out.r = 6
\* The error the claim has recorded for a non-zero status.
StatusMessage(st) == IF st \in 1..8 THEN APNSStatusCodes[st] ELSE UnknownErr

\* C17: after a full response, status 0 makes the frame return nil without a
\* recursive call; any other status makes it call Send again, with n.Error
\* the table message for 1..8 and the unknown-error message otherwise, for as
\* long as the called frame has made no attempt of its own; and the frame
\* then returns what the called frame returned.
StatusDecides ==
  \A i \in FrameIds(1) :
    LET f == stack[1][i] IN
      FullResponse(f) =>
        IF f.out.status = 0
          THEN i = Depth(1) /\ f.pc = "ret" /\ f.err = NilErr
          ELSE /\ f.pc \in {"call", "ret"}
               /\ f.pc = "call" =>
                    /\ i < Depth(1)
                    /\ stack[1][i + 1].entry = f.entry - 1
                    /\ (i + 1 = Depth(1) /\ Top(1).out = NoOut) =>
                         n[1].Error = StatusMessage(f.out.status)

RetryResultReturned ==
  (Depth(1) > 1 /\ At(1, "ret") /\ FullResponse(stack[1][Depth(1) - 1]) /\ stack' # stack) =>
    /\ Len(stack'[1]) = Depth(1) - 1
    /\ Top(1)'.pc = "ret"
    /\ Top(1)'.err = Top(1).err

StatusClassified == []StatusDecides /\ [][RetryResultReturned]_vars

StatusClassifiedWitness ==
  /\ Depth(1) = 2
  /\ stack[1][1].out = Data(6, 255)
  /\ Top(1).pc = "ret"
  /\ Top(1).err = Exhausted(UnknownErr)

\* The length of the maximal leading run of CERTIFICATE blocks.
LeadingCerts(blocks) ==
  CHOOSE k \in 0..Len(blocks) :
    /\ \A j \in 1..k : blocks[j].Type = "CERTIFICATE"
    /\ k = Len(blocks) \/ blocks[k + 1].Type # "CERTIFICATE"

\* C18: LoadPem fails with the certificate-parse error when no CERTIFICATE
\* block leads the input and with the key-parse error when nothing follows
\* the leading run, whatever the passphrase; otherwise its result is that of
\* the input cut after the first other block, and on success the chain is the
\* leading run in order and the key is the one in that block.
LeadingRunIsChain ==
  pem.called =>
    LET k == LeadingCerts(pem.blocks) IN
      /\ k = 0 => pem.err = "crypto/tls: failed to parse certificate PEM data"
      /\ (k > 0 /\ k = Len(pem.blocks)) =>
           pem.err = "crypto/tls: failed to parse key PEM data"
      /\ k < Len(pem.blocks) =>
           LET cut == LoadPem(SubSeq(pem.blocks, 1, k + 1), pem.passphrase) IN
             pem.cert = cut.cert /\ pem.err = cut.err
      /\ pem.err = NilErr =>
           /\ k > 0 /\ k < Len(pem.blocks)
           /\ pem.cert.Certificate = [j \in 1..k |-> pem.blocks[j].Bytes]
           /\ pem.cert.PrivateKey.N = pem.blocks[k + 1].Bytes.der.N

LeadingRunIsChainWitness ==
  /\ pem.called
  /\ Len(pem.blocks) = 3
  /\ pem.blocks[2].Type # "CERTIFICATE"
  /\ pem.blocks[3].Type = "CERTIFICATE"
  /\ pem.err = NilErr
  /\ Len(pem.cert.Certificate) = 1

\* The frames of caller c that hold a connection.
HeldBy(c) == {x \in Holders : x[1] = c}

\* C19: a top-level Send, over all the frames of its recursion, holds at most
\* one connection of the pool at a time.
OneConnectionPerSend == \A c \in Callers : Cardinality(HeldBy(c)) <= 1

\* C20: a Connected connection has both transport handles, Close leaves a
\* connection without a handle as it is, and no frame that holds a connection
\* has ended on a nil dereference in connect or Write.
ConnectedHasHandles ==
  /\ \A i \in ConnIds :
       /\ conns[i].Connected => (conns[i].TlsConn /\ conns[i].GaeConn)
       /\ ~conns[i].TlsConn => Close(conns[i]) = conns[i]
       /\ \A d \in DialOutcomes : connect(conns[i], d).err # PanicNilDeref
  /\ \A i \in FrameIds(1) :
       /\ stack[1][i].out.kind # "panic"
       /\ stack[1][i].conn # 0 => stack[1][i].err # PanicNilDeref

\* An attempt that took the Connected branch of connect and then wrote.
ConnectedHasHandlesWitness ==
  /\ hist[1].attempts > 0
  /\ hist[1].ev.before.Connected
  /\ ~hist[1].ev.dialled
  /\ hist[1].ev.wrote
====
